---- MODULE Spec2Model ----
(***************************************************************************)
(* Model of emberstats/scripts/social_post.js: the Google Apps Script that *)
(* reads two spreadsheet tabs, posts every due "Ready" row to Bluesky and  *)
(* marks the row "Posted".                                                 *)
(*                                                                         *)
(* JavaScript arrays are 0-based, TLA+ sequences 1-based: Cell(data, r, c) *)
(* is data[r][c] of the source.  A date cell is an integer number of clock *)
(* ticks (TicksPerDay ticks make one local day); InvalidDate stands for a  *)
(* cell that new Date() turns into an Invalid Date (empty or text).        *)
(* The model steps a run at its calls to external services (createSession, *)
(* getValues, createRecord, setValue); the local work between two calls    *)
(* (the for loop, shouldPost, Logger.log) belongs to the step of the call  *)
(* before it.                                                              *)
(* Every execution of the script has its own globals (today, sheet, data)  *)
(* and its own Logger, so they are indexed by the run.                     *)
(***************************************************************************)
EXTENDS Integers, Sequences, FiniteSets, TLC

VARIABLES sheets, pc, today, tabIdx, sheet, data, i, snap, startSheets,
          trace, faults, committed, seen, probe

vars == <<sheets, pc, today, tabIdx, sheet, data, i, snap, startSheets,
          trace, faults, committed, seen, probe>>

----------------------------------------------------------------------------
\* Bounds of the model
MaxRows == 2
MaxTwoRunRows == 1
MaxFaults == 2
MaxDay == 1
TicksPerDay == 2

SHEET_NAMES_Swapped == <<"Peak Generation", "Peak Share">>

\* Program constants
SHEET_NAMES == <<"Peak Share", "Peak Generation">>
StatusCol == 0
DateCol == 1
ContentCol == 8
FirstDataIndex == 1
InvalidDate == -1

Runs == {1, 2}
Tabs == {SHEET_NAMES[k] : k \in 1..Len(SHEET_NAMES)}
Times == 0 .. ((MaxDay + 1) * TicksPerDay - 1)
\* the executions happen on day 0 or day 1
RunDays == {0, 1}
RunTimes == {t \in Times : (t \div TicksPerDay) \in RunDays}
\* the last tick of day 1
LaterTime == TicksPerDay + TicksPerDay - 1
NoTab == "-"

----------------------------------------------------------------------------
\* Rows and cells
MkRow(status, date, content) == <<status, date, "", "", "", "", "", "", content>>
HeaderRow == MkRow("Status", InvalidDate, "Post Content")
Cell(d, row, col) == d[row + 1][col + 1]

\* Date.prototype.setHours(0, 0, 0, 0): local midnight of the same day
SetHoursMidnight(d) == IF d = InvalidDate THEN InvalidDate ELSE d - (d % TicksPerDay)
DateLT(a, b) == a # InvalidDate /\ b # InvalidDate /\ a < b
\* rowDate <= today on Date objects: false when either side is NaN
DateLE(a, b) == a # InvalidDate /\ b # InvalidDate /\ a <= b
TruthyAlways(s) == TRUE
\* truthiness of a text cell: only the empty string is falsy
Truthy(s) == s # ""

shouldPostAnyStatus(d, row, tdy) ==
    LET content == Cell(d, row, ContentCol)
        rowDate == SetHoursMidnight(Cell(d, row, DateCol))
    IN  Truthy(content) /\ DateLE(rowDate, tdy)

shouldPost(d, row, tdy) ==
    LET content == Cell(d, row, ContentCol)
        status == Cell(d, row, StatusCol)
        rowDate == SetHoursMidnight(Cell(d, row, DateCol))
    IN  Truthy(content) /\ status = "Ready" /\ DateLE(rowDate, tdy)

RowNumberSameAsIndex(idx) == idx

\* let row_number = i + 1
RowNumber(idx) == idx + 1

\* var today = new Date(); today.setHours(0, 0, 0, 0), with the clock at now
TodayAt(now) == SetHoursMidnight(now)

\* sheet.getRange(row_number, 1).setValue(v) on the stored tab
SetValue(tab, rowNumber, col, v) == [tab EXCEPT ![rowNumber][col] = v]

----------------------------------------------------------------------------
\* Trace entries: the calls to external services and the Logger lines of a run
Ev(op, tab, row, ok, text) == [op |-> op, tab |-> tab, row |-> row, ok |-> ok, text |-> text]

----------------------------------------------------------------------------
\* Initial sheet contents
RunRows == { MkRow("Ready", 0, "Hello"), MkRow("Ready", LaterTime, "Later") }
FirstRows == { HeaderRow, MkRow("Ready", 0, "NoHeader") }
\* a spreadsheet is kept with a header row in every tab, or in none
TabContents(h) == { <<h>> \o body : body \in [1..MaxRows -> RunRows] }

\* smaller sheets for two executions
TwoRunTabContents == { <<HeaderRow>> \o body : body \in [1..MaxTwoRunRows -> RunRows] }
OverlapRows == { MkRow("Ready", 0, "Hello"), MkRow("Posted", 0, "Hello") }
OverlapTabContents == { <<HeaderRow>> \o body : body \in [1..MaxTwoRunRows -> OverlapRows] }

NoProbe == [state |-> "none", data |-> <<HeaderRow>>, row |-> 0, now |-> 0, today |-> 0, result |-> FALSE]

RunInit ==
    /\ startSheets = [r \in Runs |-> sheets]
    /\ pc = [r \in Runs |-> "idle"]
    /\ today = [r \in Runs |-> 0]
    /\ tabIdx = [r \in Runs |-> 0]
    /\ sheet = [r \in Runs |-> NoTab]
    /\ data = [r \in Runs |-> <<>>]
    /\ i = [r \in Runs |-> 0]
    /\ snap = [r \in Runs |-> [t \in Tabs |-> <<>>]]
    /\ trace = [r \in Runs |-> <<>>]
    /\ faults = 0
    /\ committed = {}
    /\ seen = [r \in Runs |-> [t \in Tabs |-> {}]]

InitSingle ==
    /\ \E h \in FirstRows : sheets \in [Tabs -> TabContents(h)]
    /\ RunInit
    /\ probe = NoProbe

Init ==
    /\ sheets \in [Tabs -> TwoRunTabContents]
    /\ RunInit
    /\ probe = NoProbe

InitOverlap ==
    /\ sheets \in [Tabs -> OverlapTabContents]
    /\ RunInit
    /\ probe = NoProbe

\* inputs of shouldPost taken on their own: any status, date and content
PredStatuses == {"Ready", "Posted", "ready", ""}
PredContents == {"", " ", "Hello"}
PredRows == { MkRow(st, d, c) : st \in PredStatuses, d \in Times \cup {InvalidDate}, c \in PredContents }

InitPred ==
    /\ sheets = [t \in Tabs |-> <<HeaderRow>>]
    /\ RunInit
    /\ \E row \in PredRows, now \in Times :
          probe = [state |-> "input", data |-> <<HeaderRow, row>>, row |-> FirstDataIndex,
                   now |-> now, today |-> 0, result |-> FALSE]

----------------------------------------------------------------------------
\* One execution of the script
Finished(r) == pc[r] \in {"done", "aborted"}

\* script load (var today = new Date(); today.setHours(0, 0, 0, 0)) and
\* SpreadsheetApp.openById; the clock never runs backwards between executions
StartRun(r) ==
    /\ pc[r] = "idle"
    /\ \E now \in RunTimes :
          /\ \A q \in Runs : pc[q] # "idle" => now >= today[q]
          /\ today' = [today EXCEPT ![r] = TodayAt(now)]
    /\ pc' = [pc EXCEPT ![r] = "auth"]
    /\ startSheets' = [startSheets EXCEPT ![r] = sheets]
    /\ UNCHANGED <<sheets, tabIdx, sheet, data, i, snap, trace, faults, committed, seen, probe>>

\* a trigger fires when no other execution is in progress
Start(r) ==
    /\ \A q \in Runs \ {r} : pc[q] = "idle" \/ Finished(q)
    /\ \A q \in Runs : q < r => pc[q] # "idle"
    /\ StartRun(r)

\* a trigger fires while another execution may still be in progress
StartOverlapping(r) ==
    /\ \A q \in Runs : q < r => pc[q] # "idle"
    /\ StartRun(r)

\* the next iteration of the loop over SHEET_NAMES, or the end of the function
NextTabPc(k) == IF k <= Len(SHEET_NAMES) THEN "tab" ELSE "done"

\* for (let i = ...; i < data.length; i++) up to the first row that shouldPost accepts
RECURSIVE ScanRows(_, _, _)
ScanRows(d, j, tdy) ==
    IF j < Len(d)
    THEN IF shouldPost(d, j, tdy) THEN j ELSE ScanRows(d, j + 1, tdy)
    ELSE j

\* run the row loop of run r over d from index from, after the trace entries tr:
\* stop before the createRecord call of the next qualifying row, or leave the tab
Continue(r, d, from, tr) ==
    LET j == ScanRows(d, from, today[r]) IN
    /\ i' = [i EXCEPT ![r] = j]
    /\ IF j < Len(d)
       THEN /\ trace' = [trace EXCEPT ![r] =
                   Append(tr, Ev("log_posting", NoTab, RowNumber(j), TRUE, ""))]
            /\ pc' = [pc EXCEPT ![r] = "post"]
            /\ UNCHANGED tabIdx
       ELSE /\ trace' = [trace EXCEPT ![r] = tr]
            /\ tabIdx' = [tabIdx EXCEPT ![r] = @ + 1]
            /\ pc' = [pc EXCEPT ![r] = NextTabPc(tabIdx[r] + 1)]

AuthOk(r) ==
    /\ pc[r] = "auth"
    /\ trace' = [trace EXCEPT ![r] = Append(@, Ev("createSession", NoTab, 0, TRUE, ""))]
    /\ tabIdx' = [tabIdx EXCEPT ![r] = 1]
    /\ pc' = [pc EXCEPT ![r] = NextTabPc(1)]
    /\ UNCHANGED <<sheets, today, sheet, data, i, snap, startSheets, faults, committed, seen, probe>>

AuthFailIgnored(r) ==
    /\ pc[r] = "auth"
    /\ faults < MaxFaults
    /\ faults' = faults + 1
    /\ trace' = [trace EXCEPT ![r] = Append(@, Ev("createSession", NoTab, 0, FALSE, "fetch"))]
    /\ tabIdx' = [tabIdx EXCEPT ![r] = 1]
    /\ pc' = [pc EXCEPT ![r] = NextTabPc(1)]
    /\ UNCHANGED <<sheets, today, sheet, data, i, snap, startSheets, committed, seen, probe>>

\* UrlFetchApp.fetch throws, or JSON.parse throws on the response: nothing catches it
AuthFail(r) ==
    /\ pc[r] = "auth"
    /\ faults < MaxFaults
    /\ faults' = faults + 1
    /\ \E why \in {"fetch", "parse"} :
          trace' = [trace EXCEPT ![r] = Append(@, Ev("createSession", NoTab, 0, FALSE, why))]
    /\ pc' = [pc EXCEPT ![r] = "aborted"]
    /\ UNCHANGED <<sheets, today, tabIdx, sheet, data, i, snap, startSheets, committed, seen, probe>>

\* Logger.log("Searching ..."), getSheetByName, getDataRange().getValues(), let i = 1
ReadTab(r) ==
    /\ pc[r] = "tab"
    /\ LET name == SHEET_NAMES[tabIdx[r]] IN
          /\ sheet' = [sheet EXCEPT ![r] = name]
          /\ data' = [data EXCEPT ![r] = sheets[name]]
          /\ snap' = [snap EXCEPT ![r][name] = sheets[name]]
          /\ seen' = [seen EXCEPT ![r][name] = {w \in committed : w[2] = name}]
          /\ Continue(r, sheets[name], FirstDataIndex,
                      trace[r] \o << Ev("log_search", name, 0, TRUE, ""),
                                     Ev("getValues", name, 0, TRUE, "") >>)
    /\ UNCHANGED <<sheets, today, startSheets, faults, committed, probe>>

\* UrlFetchApp.fetch(createRecord) returns
PostOk(r) ==
    /\ pc[r] = "post"
    /\ trace' = [trace EXCEPT ![r] = Append(@,
                    Ev("createRecord", sheet[r], RowNumber(i[r]), TRUE, Cell(data[r], i[r], ContentCol)))]
    /\ pc' = [pc EXCEPT ![r] = "write"]
    /\ UNCHANGED <<sheets, today, tabIdx, sheet, data, i, snap, startSheets, faults, committed, seen, probe>>

PostThrowRetry(r) ==
    /\ pc[r] = "post"
    /\ faults < MaxFaults
    /\ faults' = faults + 1
    /\ Continue(r, data[r], i[r],
                trace[r] \o << Ev("createRecord", sheet[r], RowNumber(i[r]), FALSE,
                                  Cell(data[r], i[r], ContentCol)),
                               Ev("log_error", NoTab, RowNumber(i[r]), TRUE, "") >>)
    /\ UNCHANGED <<sheets, today, sheet, data, snap, startSheets, committed, seen, probe>>

PostThrowMarksPosted(r) ==
    /\ pc[r] = "post"
    /\ faults < MaxFaults
    /\ faults' = faults + 1
    /\ sheets' = [sheets EXCEPT ![sheet[r]] = SetValue(@, RowNumber(i[r]), 1, "Posted")]
    /\ Continue(r, data[r], i[r] + 1,
                trace[r] \o << Ev("createRecord", sheet[r], RowNumber(i[r]), FALSE,
                                  Cell(data[r], i[r], ContentCol)),
                               Ev("log_error", NoTab, RowNumber(i[r]), TRUE, "") >>)
    /\ UNCHANGED <<today, sheet, data, snap, startSheets, committed, seen, probe>>

PostThrowUncaught(r) ==
    /\ pc[r] = "post"
    /\ faults < MaxFaults
    /\ faults' = faults + 1
    /\ trace' = [trace EXCEPT ![r] = @ \o
                    << Ev("createRecord", sheet[r], RowNumber(i[r]), FALSE,
                          Cell(data[r], i[r], ContentCol)),
                       Ev("log_error", NoTab, RowNumber(i[r]), TRUE, "") >>]
    /\ pc' = [pc EXCEPT ![r] = "aborted"]
    /\ UNCHANGED <<sheets, today, tabIdx, sheet, data, i, snap, startSheets, committed, seen, probe>>

\* UrlFetchApp.fetch(createRecord) throws: caught, logged, i++
PostThrow(r) ==
    /\ pc[r] = "post"
    /\ faults < MaxFaults
    /\ faults' = faults + 1
    /\ Continue(r, data[r], i[r] + 1,
                trace[r] \o << Ev("createRecord", sheet[r], RowNumber(i[r]), FALSE,
                                  Cell(data[r], i[r], ContentCol)),
                               Ev("log_error", NoTab, RowNumber(i[r]), TRUE, "") >>)
    /\ UNCHANGED <<sheets, today, sheet, data, snap, startSheets, committed, seen, probe>>

\* sheet.getRange(row_number, 1).setValue("Posted") succeeds, i++
WriteOk(r) ==
    /\ pc[r] = "write"
    /\ sheets' = [sheets EXCEPT ![sheet[r]] = SetValue(@, RowNumber(i[r]), 1, "Posted")]
    /\ committed' = committed \cup {<<r, sheet[r], RowNumber(i[r])>>}
    /\ Continue(r, data[r], i[r] + 1,
                Append(trace[r], Ev("setValue", sheet[r], RowNumber(i[r]), TRUE, "Posted")))
    /\ UNCHANGED <<today, sheet, data, snap, startSheets, faults, seen, probe>>

WriteThrowUncaught(r) ==
    /\ pc[r] = "write"
    /\ faults < MaxFaults
    /\ faults' = faults + 1
    /\ trace' = [trace EXCEPT ![r] = Append(@,
                    Ev("setValue", sheet[r], RowNumber(i[r]), FALSE, "Posted"))]
    /\ pc' = [pc EXCEPT ![r] = "aborted"]
    /\ UNCHANGED <<sheets, today, tabIdx, sheet, data, i, snap, startSheets, committed, seen, probe>>

\* setValue throws: caught by the same catch, logged, i++
WriteThrow(r) ==
    /\ pc[r] = "write"
    /\ faults < MaxFaults
    /\ faults' = faults + 1
    /\ Continue(r, data[r], i[r] + 1,
                trace[r] \o << Ev("setValue", sheet[r], RowNumber(i[r]), FALSE, "Posted"),
                               Ev("log_error", NoTab, RowNumber(i[r]), TRUE, "") >>)
    /\ UNCHANGED <<sheets, today, sheet, data, snap, startSheets, committed, seen, probe>>

RunStep(r) ==
    \/ AuthOk(r)
    \/ AuthFail(r)
    \/ ReadTab(r)
    \/ PostOk(r)
    \/ PostThrow(r)
    \/ WriteOk(r)
    \/ WriteThrow(r)

Next == \E r \in Runs : Start(r) \/ RunStep(r)

Spec == Init /\ [][Next]_vars

NextOverlap == \E r \in Runs : StartOverlapping(r) \/ RunStep(r)

SpecOverlap == InitOverlap /\ [][NextOverlap]_vars

\* a single execution that the runtime carries to its end
NextSingle == Start(1) \/ RunStep(1)

SpecSingle == InitSingle /\ [][NextSingle]_vars /\ WF_vars(RunStep(1))

\* shouldPost applied to one row with the script loaded at probe.now
Evaluate ==
    /\ probe.state = "input"
    /\ probe' = [probe EXCEPT !.state = "evaluated",
                              !.today = TodayAt(probe.now),
                              !.result = shouldPost(probe.data, probe.row, TodayAt(probe.now))]
    /\ UNCHANGED <<sheets, pc, today, tabIdx, sheet, data, i, snap, startSheets,
                   trace, faults, committed, seen>>

NextPred == Evaluate

SpecPred == InitPred /\ [][NextPred]_vars

----------------------------------------------------------------------------
\* Reading the traces
DataRowNumbers(t) == 2 .. Len(sheets[t])

Calls(r, op, t, n) ==
    {k \in DOMAIN trace[r] : trace[r][k].op = op /\ trace[r][k].tab = t /\ trace[r][k].row = n}

\* number of createRecord submissions of run r for sheet row n of tab t
Posts(r, t, n) == Cardinality(Calls(r, "createRecord", t, n))

PostFailed(r, t, n) == \E k \in Calls(r, "createRecord", t, n) : ~trace[r][k].ok
PostSucceeded(r, t, n) == \E k \in Calls(r, "createRecord", t, n) : trace[r][k].ok
WriteFailed(r, t, n) == \E k \in Calls(r, "setValue", t, n) : ~trace[r][k].ok

\* the Logger lines carry no tab name: a line belongs to the tab whose
\* "Searching for posts in ..." line is the last one before it
SearchAt(tr, t) ==
    LET S == {k \in DOMAIN tr : tr[k].op = "log_search" /\ tr[k].tab = t}
    IN  IF S = {} THEN 0 ELSE CHOOSE k \in S : TRUE

InSegment(tr, t, k) ==
    /\ SearchAt(tr, t) # 0
    /\ k > SearchAt(tr, t)
    /\ \A u \in Tabs : SearchAt(tr, u) > SearchAt(tr, t) => k < SearchAt(tr, u)

ErrorLogs(r, t, n) ==
    Cardinality({k \in DOMAIN trace[r] :
        trace[r][k].op = "log_error" /\ trace[r][k].row = n /\ InSegment(trace[r], t, k)})

CleanRun(r) == pc[r] = "done" /\ \A k \in DOMAIN trace[r] : trace[r][k].ok
AuthFailed(r) == trace[r] # <<>> /\ trace[r][1].op = "createSession" /\ ~trace[r][1].ok
LastRun(r) == \A q \in Runs : q > r => pc[q] = "idle"
DayOf(t) == t \div TicksPerDay

----------------------------------------------------------------------------
\* C6: shouldPost accepts a row exactly when its content is not the empty
\* string, its status is exactly "Ready" and its date is a valid date whose
\* day is today's day or an earlier one; a Ready row with content dated
\* today or earlier is accepted, one dated a later day is not, and a row
\* whose status is not "Ready" never is.
ShouldPostIffReadyDueContent ==
    probe.state = "evaluated" =>
        LET row == probe.data[probe.row + 1]
            due == row[2] # InvalidDate /\ DayOf(row[2]) <= DayOf(probe.now)
        IN  /\ probe.result <=> (row[9] # "" /\ row[1] = "Ready" /\ due)
            /\ row[1] # "Ready" => ~probe.result

\* a Ready row with content, dated later in the day than the script was loaded, is accepted
ShouldPostSameDayWitness ==
    /\ probe.state = "evaluated"
    /\ probe.result
    /\ probe.data[probe.row + 1][2] > probe.now

\* C7 as stated: empty or whitespace-only content is never accepted
BlankContentNeverQualifies ==
    (probe.state = "evaluated" /\ probe.data[probe.row + 1][9] \in {"", " "}) => ~probe.result

\* C7: a row whose content is the empty string is not accepted by shouldPost,
\* whatever its status and date.
EmptyContentNeverQualifies ==
    (probe.state = "evaluated" /\ probe.data[probe.row + 1][9] = "") => ~probe.result

\* an empty-content row that is Ready and due has been evaluated
EmptyContentWitness ==
    /\ probe.state = "evaluated"
    /\ probe.data[probe.row + 1][9] = ""
    /\ probe.data[probe.row + 1][1] = "Ready"
    /\ probe.data[probe.row + 1][2] # InvalidDate
    /\ probe.data[probe.row + 1][2] <= probe.now
    /\ ~probe.result

----------------------------------------------------------------------------
\* C1: when the first run ended without any error and the second run is made
\* with the same today, every data row that shouldPost accepted at the start
\* of the first run was submitted once by the first run and is never
\* submitted by the second, which reads its status as "Posted".
IdempotentAcrossRuns ==
    (CleanRun(1) /\ (pc[2] = "idle" \/ today[2] = today[1])) =>
        \A t \in Tabs : \A n \in DataRowNumbers(t) :
            shouldPost(startSheets[1][t], n - 1, today[1]) =>
                /\ Posts(1, t, n) = 1
                /\ Posts(2, t, n) = 0
                /\ snap[2][t] # <<>> => snap[2][t][n][1] = "Posted"

\* both runs ended without error on the same day, the first having posted a row of each tab
IdempotentWitness ==
    /\ CleanRun(1) /\ CleanRun(2) /\ today[2] = today[1]
    /\ \A t \in Tabs : \E n \in DataRowNumbers(t) :
          shouldPost(startSheets[1][t], n - 1, today[1]) /\ Posts(1, t, n) = 1

\* C2: within one run no row of any tab is submitted to createRecord more
\* than once, whatever the outcomes of the calls.
AtMostOncePerRun ==
    \A r \in Runs : \A t \in Tabs : \A n \in 1 .. Len(sheets[t]) : Posts(r, t, n) <= 1

\* a run ended in which createRecord threw for one row of a tab and returned for another
AtMostOnceWitness ==
    \E r \in Runs : \E t \in Tabs : \E n, m \in DataRowNumbers(t) :
        /\ pc[r] = "done"
        /\ PostFailed(r, t, n)
        /\ PostSucceeded(r, t, m)

\* C3: when the createRecord call for a row threw, at the end of that run the
\* row's status cell holds what it held when the run started and the run's
\* log has exactly one error line for the row, naming its sheet row number.
PostFailureLeavesRow ==
    \A r \in Runs : \A t \in Tabs : \A n \in DataRowNumbers(t) :
        (Finished(r) /\ LastRun(r) /\ PostFailed(r, t, n)) =>
            /\ sheets[t][n][1] = startSheets[r][t][n][1]
            /\ sheets[t][n][1] # "Posted"
            /\ ErrorLogs(r, t, n) = 1
            /\ \A k \in Calls(r, "createRecord", t, n) :
                  /\ k < Len(trace[r])
                  /\ trace[r][k + 1].op = "log_error"
                  /\ trace[r][k + 1].row = n

\* a run in which the createRecord call threw for the same row number of both tabs
PostFailureWitness ==
    \E r \in Runs : \E n \in 2 .. (MaxRows + 1) :
        /\ pc[r] = "done" /\ LastRun(r)
        /\ \A t \in Tabs : PostFailed(r, t, n)

\* C4: an error thrown for a row never aborts the run; the run goes on to its
\* end, and at its end every data row that shouldPost accepts in the values
\* read, in every configured tab, has been submitted.
RowError(r) == \E k \in DOMAIN trace[r] : trace[r][k].op = "log_error"

AllQualifyingSubmitted(r) ==
    \A t \in Tabs :
        /\ snap[r][t] # <<>>
        /\ \A n \in 2 .. Len(snap[r][t]) :
              shouldPost(snap[r][t], n - 1, today[r]) => Posts(r, t, n) = 1

ErrorsNeverStopRun ==
    /\ [](\A r \in Runs : /\ RowError(r) => pc[r] # "aborted"
                          /\ pc[r] = "done" => AllQualifyingSubmitted(r))
    /\ RowError(1) ~> (pc[1] = "done")

\* a run ended after the first data row of the first tab failed and later rows were submitted
ErrorsNeverStopWitness ==
    /\ pc[1] = "done"
    /\ PostFailed(1, SHEET_NAMES[1], 2)
    /\ PostSucceeded(1, SHEET_NAMES[1], 3)
    /\ \E n \in DataRowNumbers(SHEET_NAMES[2]) : Posts(1, SHEET_NAMES[2], n) = 1

\* C5: when createSession fails or its response does not parse, the run is
\* over: it read no tab, made no createRecord call and wrote no cell, and
\* the sheets are as they were when it started.
AuthFailureAborts ==
    \A r \in Runs : AuthFailed(r) =>
        /\ pc[r] = "aborted"
        /\ Len(trace[r]) = 1
        /\ data[r] = <<>>
        /\ \A t \in Tabs : snap[r][t] = <<>>
        /\ \A w \in committed : w[1] # r
        /\ LastRun(r) => sheets = startSheets[r]

\* the run failed to authenticate while both tabs held a row due for posting
AuthFailureWitness ==
    /\ AuthFailed(1)
    /\ \A t \in Tabs : \E n \in DataRowNumbers(t) : shouldPost(sheets[t], n - 1, today[1])

\* C8: a run reads "Peak Share" then "Peak Generation", each once and before
\* any of its rows is handled; it submits the qualifying data rows of the
\* values read from top to bottom, never the first sheet row; each
\* successful submission is followed at once by the write of "Posted" to
\* column A of the same row, before anything is done for a later row, and
\* nothing but those cells is ever written.
TabBefore(tr, k) ==
    LET S == {m \in 1 .. k : tr[m].op = "getValues"}
    IN  IF S = {} THEN NoTab ELSE tr[CHOOSE m \in S : \A x \in S : x <= m].tab

TraceInOrder(r) ==
    LET tr == trace[r] IN
    \A k \in DOMAIN tr :
        /\ tr[k].op = "getValues" =>
              /\ tr[k].tab = <<"Peak Share", "Peak Generation">>
                                [Cardinality({m \in 1 .. k : tr[m].op = "getValues"})]
              /\ tr[k - 1].op = "log_search" /\ tr[k - 1].tab = tr[k].tab
        /\ tr[k].op = "createRecord" =>
              /\ tr[k].tab = TabBefore(tr, k)
              /\ tr[k].row >= 2
              /\ shouldPost(snap[r][tr[k].tab], tr[k].row - 1, today[r])
              /\ tr[k].text = snap[r][tr[k].tab][tr[k].row][9]
              /\ tr[k - 1].op = "log_posting" /\ tr[k - 1].row = tr[k].row
              /\ \A m \in 1 .. (k - 1) :
                    (tr[m].op = "createRecord" /\ tr[m].tab = tr[k].tab) => tr[m].row < tr[k].row
              /\ \A n \in 2 .. (tr[k].row - 1) :
                    shouldPost(snap[r][tr[k].tab], n - 1, today[r]) => Posts(r, tr[k].tab, n) = 1
              /\ (tr[k].ok /\ k < Len(tr)) =>
                    /\ tr[k + 1].op = "setValue"
                    /\ tr[k + 1].tab = tr[k].tab /\ tr[k + 1].row = tr[k].row
        /\ tr[k].op = "setValue" =>
              /\ tr[k - 1].op = "createRecord" /\ tr[k - 1].ok
              /\ tr[k - 1].tab = tr[k].tab /\ tr[k - 1].row = tr[k].row
              /\ tr[k].text = "Posted"
              /\ tr[k].ok => sheets[tr[k].tab][tr[k].row][1] = "Posted"

OnlyStatusCellsWritten ==
    \A t \in Tabs :
        /\ Len(sheets[t]) = Len(startSheets[1][t])
        /\ sheets[t][1] = startSheets[1][t][1]
        /\ \A n \in DataRowNumbers(t) :
              \/ sheets[t][n] = startSheets[1][t][n]
              \/ /\ \E r \in Runs : <<r, t, n>> \in committed /\ PostSucceeded(r, t, n)
                 /\ sheets[t][n] = [startSheets[1][t][n] EXCEPT ![1] = "Posted"]

ProcessingOrder ==
    /\ \A r \in Runs : TraceInOrder(r)
    /\ OnlyStatusCellsWritten

\* a run over a sheet whose first row looks like a due post: two rows of the
\* first tab and one of the second were posted and marked, in order
ProcessingOrderWitness ==
    \E r \in Runs :
        /\ pc[r] = "done"
        /\ shouldPost(snap[r][SHEET_NAMES[1]], 0, today[r])
        /\ <<r, SHEET_NAMES[1], 2>> \in committed
        /\ <<r, SHEET_NAMES[1], 3>> \in committed
        /\ \E n \in DataRowNumbers(SHEET_NAMES[2]) : <<r, SHEET_NAMES[2], n>> \in committed

\* C9: with overlapping runs a row can be submitted by both; whenever that
\* happens, each of the two runs read the tab while the row was still "Ready",
\* before the other run's write of "Posted" for it took effect.
DoublePostOnlyByStaleRead ==
    \A t \in Tabs : \A n \in DataRowNumbers(t) :
        /\ Posts(1, t, n) <= 1 /\ Posts(2, t, n) <= 1
        /\ (Posts(1, t, n) = 1 /\ Posts(2, t, n) = 1) =>
              \A r \in Runs : \A q \in Runs \ {r} :
                  /\ <<q, t, n>> \notin seen[r][t]
                  /\ snap[r][t][n][1] = "Ready"

\* both runs submitted the same row and both wrote "Posted" for it
DoublePostWitness ==
    \E t \in Tabs : \E n \in DataRowNumbers(t) :
        /\ PostSucceeded(1, t, n) /\ PostSucceeded(2, t, n)
        /\ <<1, t, n>> \in committed /\ <<2, t, n>> \in committed

\* C10: when createRecord succeeded for a row and the write of "Posted"
\* threw in the first run, the error is logged, the run is not aborted, the
\* row stays "Ready" until a later run marks it, and a second run that
\* reaches its end has submitted the row again.
WriteFailureReposts ==
    \A t \in Tabs : \A n \in DataRowNumbers(t) :
        WriteFailed(1, t, n) =>
            /\ PostSucceeded(1, t, n)
            /\ \A k \in Calls(1, "setValue", t, n) :
                  /\ k < Len(trace[1])
                  /\ trace[1][k + 1].op = "log_error" /\ trace[1][k + 1].row = n
            /\ pc[1] # "aborted"
            /\ <<2, t, n>> \notin committed => sheets[t][n][1] = "Ready"
            /\ pc[1] = "done" => AllQualifyingSubmitted(1)
            /\ pc[2] = "done" => Posts(1, t, n) + Posts(2, t, n) = 2

\* the row was published by both runs, the first having failed to mark it
WriteFailureWitness ==
    \E t \in Tabs : \E n \in DataRowNumbers(t) :
        /\ WriteFailed(1, t, n)
        /\ pc[1] = "done" /\ pc[2] = "done"
        /\ PostSucceeded(2, t, n)
        /\ <<2, t, n>> \in committed

====
